---- MODULE Spec2Model ----
(***************************************************************************)
(* A model of wcka.py: terms of Concurrent Kleene Algebra, their smart     *)
(* constructors, splicings, remainders, preclosure, and the linear-system  *)
(* solver that computes the closure of a parallel composition.             *)
(*                                                                         *)
(* A term is a record [tag, letter, kids, str].  `str` is the canonical    *)
(* printed form (__str__), fixed when the object is constructed, since     *)
(* terms are immutable.  Term equality and hashing are on `str` only, so   *)
(* two records with the same `str` and different `kids` are two Python     *)
(* objects that compare equal.  The parallel operator is printed "|".      *)
(***************************************************************************)
EXTENDS Integers, Sequences, FiniteSets, TLC

VARIABLES
    ord,        \* iteration order of sets in this process ("fwd" or "rev")
    pc,         \* position of the driver
    t,          \* the term under construction / the receiver of the call
    nops,       \* number of constructor calls made to build t
    heap,       \* the set objects of remainders: reference -> set of terms
    stack,      \* the frames of the active remainders calls, innermost last
    result,     \* what the last top-level remainders call returned
    ncalls,     \* number of top-level remainders calls made
    steps,      \* number of todo.pop() calls made since the top-level call
    system,     \* the LinearSystem whose solve() is running
    frames,     \* the solve() calls waiting for it: their system and elim
    solution,   \* the dictionary the innermost finished solve() returned
    closed,     \* what t.closure() returned
    chain       \* the receivers of the active closure() calls, outermost first

remvars == <<heap, stack, result, ncalls, steps>>

solvevars == <<system, frames, solution, closed>>

vars == <<ord, pc, t, nops, heap, stack, result, ncalls, steps,
          system, frames, solution, closed, chain>>

(***************************************************************************)
(* Bounds                                                                  *)
(***************************************************************************)
MaxOps == 2

MaxRemOps == 1

MaxCalls == 2

MaxSolveOps == 1

MaxSymbols == 6

MaxCallOps == 2

Letters == {"a", "b"}

(***************************************************************************)
(* Printing: Term.bracket, __str__                                         *)
(***************************************************************************)
order(tag) ==
    CASE tag = "Zero" -> 0
      [] tag = "One" -> 1
      [] tag = "Primitive" -> 2
      [] tag = "Variable" -> 3
      [] tag = "Star" -> 4
      [] tag = "Sequential" -> 5
      [] tag = "Parallel" -> 6
      [] tag = "Choice" -> 7

precedes(a, b) == order(a) <= order(b)

bracket(self, next_op) ==
    IF precedes(self.tag, next_op) THEN self.str ELSE "(" \o self.str \o ")"

(***************************************************************************)
(* Raw class constructors                                                  *)
(***************************************************************************)
Zero == [tag |-> "Zero", letter |-> "", kids |-> <<>>, str |-> "0"]

One == [tag |-> "One", letter |-> "", kids |-> <<>>, str |-> "1"]

Primitive(c) == [tag |-> "Primitive", letter |-> c, kids |-> <<>>, str |-> c]

BinaryTerm(tag, operator, l, r) ==
    [tag |-> tag, letter |-> "", kids |-> <<l, r>>,
     str |-> bracket(l, tag) \o operator \o bracket(r, tag)]

Choice(l, r) == BinaryTerm("Choice", " + ", l, r)

Sequential(l, r) == BinaryTerm("Sequential", "", l, r)

Parallel(l, r) == BinaryTerm("Parallel", "|", l, r)

Star(b) ==
    [tag |-> "Star", letter |-> "", kids |-> <<b>>,
     str |-> bracket(b, "Star") \o "*"]

left(x) == x.kids[1]

right(x) == x.kids[2]

beneath(x) == x.kids[1]

(***************************************************************************)
(* Equality and containment                                                *)
(***************************************************************************)
eq(x, y) == x.str = y.str

RECURSIVE contains(_, _)
\* __contains__ with Choice.__contains__ looking into its left operand only
contains_left_only(self, term) ==
    CASE self.tag = "Choice" ->
            \/ eq(self, term)
            \/ contains(left(self), term)
      [] self.tag = "Parallel" ->
            IF term.tag = "Parallel"
            THEN \/ /\ contains(left(self), left(term))
                    /\ contains(right(self), right(term))
                 \/ /\ contains(right(self), left(term))
                    /\ contains(left(self), right(term))
            ELSE eq(self, term)
      [] self.tag = "Star" ->
            \/ term.tag = "One"
            \/ contains(beneath(self), term)
            \/ eq(self, term)
      [] OTHER -> eq(self, term)

\* self.__contains__(term), i.e. `term in self`
contains(self, term) ==
    CASE self.tag = "Choice" ->
            \/ eq(self, term)
            \/ contains(left(self), term)
            \/ contains(right(self), term)
      [] self.tag = "Parallel" ->
            IF term.tag = "Parallel"
            THEN \/ /\ contains(left(self), left(term))
                    /\ contains(right(self), right(term))
                 \/ /\ contains(right(self), left(term))
                    /\ contains(left(self), right(term))
            ELSE eq(self, term)
      [] self.tag = "Star" ->
            \/ term.tag = "One"
            \/ contains(beneath(self), term)
            \/ eq(self, term)
      [] OTHER -> eq(self, term)

(***************************************************************************)
(* Smart constructors                                                      *)
(***************************************************************************)
Term_add(self, other) ==
    IF other.tag = "Zero" THEN self
    ELSE IF self.tag = "Zero" THEN other
    ELSE IF contains(self, other) THEN self
    ELSE IF contains(other, self) THEN other
    ELSE Choice(self, other)

One_add(self, other) ==
    IF other.tag = "Sequential"
       /\ left(other).tag = "Star"
       /\ eq(beneath(left(other)), right(other))
    THEN left(other)
    ELSE IF other.tag = "Sequential"
            /\ right(other).tag = "Star"
            /\ eq(beneath(right(other)), left(other))
    THEN right(other)
    ELSE Term_add(self, other)

Sequential_add(self, other) ==
    IF other.tag = "One"
       /\ left(self).tag = "Star"
       /\ eq(beneath(left(self)), right(self))
    THEN left(self)
    ELSE IF other.tag = "One"
            /\ right(self).tag = "Star"
            /\ eq(beneath(right(self)), left(self))
    THEN right(self)
    ELSE Term_add(self, other)

\* self + other
add(self, other) ==
    CASE self.tag = "One" -> One_add(self, other)
      [] self.tag = "Sequential" -> Sequential_add(self, other)
      [] OTHER -> Term_add(self, other)

\* self ** other
pow(self, other) ==
    IF other.tag = "One" THEN self
    ELSE IF self.tag = "One" THEN other
    ELSE IF other.tag = "Zero" THEN Zero
    ELSE IF self.tag = "Zero" THEN Zero
    ELSE Sequential(self, other)

\* self // other
floordiv(self, other) ==
    IF other.tag = "One" THEN self
    ELSE IF self.tag = "One" THEN other
    ELSE IF other.tag = "Zero" THEN Zero
    ELSE IF self.tag = "Zero" THEN Zero
    ELSE Parallel(self, other)

star(self) ==
    IF self.tag = "One" \/ self.tag = "Zero" THEN One
    ELSE IF self.tag = "Star" THEN self
    ELSE Star(self)

(***************************************************************************)
(* Measures: nullable, is_trivial, width                                   *)
(***************************************************************************)
RECURSIVE nullable(_)
\* nullable with Choice.nullable requiring both operands
nullable_of_both(self) ==
    CASE self.tag = "Zero" -> FALSE
      [] self.tag = "One" -> TRUE
      [] self.tag = "Primitive" -> FALSE
      [] self.tag = "Star" -> TRUE
      [] OTHER -> nullable(left(self)) /\ nullable(right(self))

nullable(self) ==
    CASE self.tag = "Zero" -> FALSE
      [] self.tag = "One" -> TRUE
      [] self.tag = "Primitive" -> FALSE
      [] self.tag = "Star" -> TRUE
      [] self.tag = "Choice" -> nullable(left(self)) \/ nullable(right(self))
      [] self.tag = "Sequential" -> nullable(left(self)) /\ nullable(right(self))
      [] self.tag = "Parallel" -> nullable(left(self)) /\ nullable(right(self))

\* The outcome of Zero().is_trivial(): the method is declared without `self`,
\* so the bound call raises TypeError.  Width results use TypeError as the
\* value that stands for the raised exception.
TypeError == -1

RECURSIVE is_trivial(_)
\* "True", "False", or "TypeError" when the call raises
is_trivial(self) ==
    CASE self.tag = "Zero" -> "TypeError"
      [] self.tag = "Choice" ->
            LET l == is_trivial(left(self))
            IN  IF l = "True" THEN is_trivial(right(self)) ELSE l
      [] self.tag \in {"Sequential", "Parallel"} ->
            LET l == is_trivial(left(self))
            IN  IF l = "False" THEN is_trivial(right(self)) ELSE l
      [] OTHER -> "False"

max(x, y) == IF x >= y THEN x ELSE y

RECURSIVE width(_)
width(self) ==
    LET trivial == is_trivial(self)
        wl == width(left(self))
        wr == width(right(self))
    IN  IF trivial = "TypeError" THEN TypeError
        ELSE IF trivial = "True" THEN 0
        ELSE CASE self.tag = "One" -> 0
               [] self.tag = "Primitive" -> 1
               [] self.tag = "Star" -> width(beneath(self))
               [] self.tag \in {"Choice", "Sequential"} ->
                     IF wl = TypeError \/ wr = TypeError THEN TypeError
                     ELSE max(wl, wr)
               [] self.tag = "Parallel" ->
                     IF wl = TypeError \/ wr = TypeError THEN TypeError
                     ELSE wl + wr

(***************************************************************************)
(* Python sets.  A set of terms (or of pairs of terms) holds one object    *)
(* per equality class of `str`; the object inserted first stays.  iter(S)  *)
(* is the order in which this process iterates over S.                     *)
(***************************************************************************)
RECURSIVE SetToSeq(_)
SetToSeq(S) ==
    IF S = {} THEN <<>>
    ELSE LET x == CHOOSE y \in S : TRUE IN <<x>> \o SetToSeq(S \ {x})

\* the tuple with the elements of the sequence f
tuple(f) == f \o <<>>

\* the function f with every value computed
dict(f) == f @@ <<>>

Reverse(s) == tuple([i \in 1..Len(s) |-> s[Len(s) + 1 - i]])

iter(S) == IF ord = "fwd" THEN SetToSeq(S) ELSE Reverse(SetToSeq(S))

pkey(p) == <<p[1].str, p[2].str>>

RECURSIVE pairs_from(_, _, _)
pairs_from(seq, i, acc) ==
    IF i > Len(seq) THEN acc
    ELSE pairs_from(seq, i + 1,
            IF \E q \in acc : pkey(q) = pkey(seq[i]) THEN acc
            ELSE acc \cup {seq[i]})

\* the set built by a comprehension that yields seq[1], seq[2], ...
pair_set(seq) == pairs_from(tuple(seq), 1, {})

\* A | B on sets of pairs
pair_union(A, B) == A \cup {q \in B : \A p \in A : pkey(p) # pkey(q)}

RECURSIVE terms_from(_, _, _)
terms_from(seq, i, acc) ==
    IF i > Len(seq) THEN acc
    ELSE terms_from(seq, i + 1,
            IF \E q \in acc : eq(q, seq[i]) THEN acc ELSE acc \cup {seq[i]})

term_set(seq) == terms_from(tuple(seq), 1, {})

\* A | B on sets of terms
term_union(A, B) == A \cup {q \in B : \A p \in A : ~eq(p, q)}

\* `x in S` for a set of terms
member(x, S) == \E y \in S : eq(x, y)

\* the sequence f(L[1], R[1]), f(L[1], R[2]), ..., of a two-level generator
cross(L, R) ==
    tuple([k \in 1..(Len(L) * Len(R)) |->
            <<L[((k - 1) \div Len(R)) + 1], R[((k - 1) % Len(R)) + 1]>>])

(***************************************************************************)
(* Splicings                                                               *)
(***************************************************************************)
RECURSIVE ssplicings(_)
ssplicings(self) ==
    CASE self.tag = "Zero" -> {}
      [] self.tag = "One" -> {<<self, self>>}
      [] self.tag = "Primitive" -> pair_set(<< <<self, One>>, <<One, self>> >>)
      [] self.tag = "Choice" ->
            pair_union(ssplicings(left(self)), ssplicings(right(self)))
      [] self.tag = "Sequential" ->
            LET R == iter(ssplicings(right(self)))
                L == iter(ssplicings(left(self)))
            IN  pair_union(
                    pair_set([i \in 1..Len(R) |->
                                <<pow(left(self), R[i][1]), R[i][2]>>]),
                    pair_set([i \in 1..Len(L) |->
                                <<L[i][1], pow(L[i][2], right(self))>>]))
      [] self.tag = "Parallel" ->
            LET X == cross(iter(ssplicings(left(self))),
                           iter(ssplicings(right(self))))
            IN  pair_set([k \in 1..Len(X) |->
                            <<floordiv(X[k][1][1], X[k][2][1]),
                              floordiv(X[k][1][2], X[k][2][2])>>])
      [] self.tag = "Star" ->
            LET B == iter(ssplicings(beneath(self)))
            IN  pair_union(
                    pair_set([i \in 1..Len(B) |->
                                <<pow(self, B[i][1]), pow(B[i][2], self)>>]),
                    {<<One, One>>})

RECURSIVE psplicings(_)
psplicings(self) ==
    LET nontrivial_psplicings ==
            CASE self.tag = "Choice" ->
                    pair_union(psplicings(left(self)), psplicings(right(self)))
              [] self.tag = "Sequential" ->
                    pair_union(
                        IF nullable(right(self))
                        THEN psplicings(left(self)) ELSE {},
                        IF nullable(left(self))
                        THEN psplicings(right(self)) ELSE {})
              [] self.tag = "Parallel" ->
                    LET X == cross(iter(psplicings(left(self))),
                                   iter(psplicings(right(self))))
                    IN  pair_set([k \in 1..Len(X) |->
                                    <<floordiv(X[k][1][1], X[k][2][1]),
                                      floordiv(X[k][1][2], X[k][2][2])>>])
              [] self.tag = "Star" -> psplicings(beneath(self))
              [] OTHER -> {}
    IN  pair_union(nontrivial_psplicings,
                   pair_set(<< <<self, One>>, <<One, self>> >>))

(***************************************************************************)
(* Remainders, preclosure, the linear system and closure, as the values    *)
(* the methods return.  Sets are iterated in the order iter gives; a       *)
(* dictionary keyed by terms is a function of their printed forms.         *)
(***************************************************************************)
RECURSIVE fold_add(_, _, _)
\* sum(seq[i], seq[i+1], ..., start=acc)
fold_add(seq, i, acc) ==
    IF i > Len(seq) THEN acc ELSE fold_add(seq, i + 1, add(acc, seq[i]))

\* sum(<generator yielding seq>, start)
sum(seq, start) == fold_add(tuple(seq), 1, start)

RECURSIVE remainders(_, _)
RECURSIVE remainders_loop(_, _, _)
\* the `while todo` loop, todo.pop() taking todo[i], todo[i+1], ...
remainders_loop(todo, i, acc) ==
    IF i > Len(todo) THEN acc
    ELSE remainders_loop(todo, i + 1,
            IF member(todo[i][2], acc) THEN acc
            ELSE term_union(acc, remainders(todo[i][2], acc)))

remainders(self, seen) ==
    remainders_loop(iter(ssplicings(self)), 1, term_union({self}, seen))

\* the condition of preclosure with <= in the place of <
narrow_or_equal(self, p) ==
    width(p[1]) <= width(self) /\ width(p[2]) <= width(self)

\* the condition of the generator of preclosure, for the pair p = (g, h)
narrow(self, p) == width(p[1]) < width(self) /\ width(p[2]) < width(self)

\* the pairs (g, h) of self.psplicings() whose closures preclosure takes
narrow_psplicings(self) ==
    LET keep(p) == narrow(self, p)
    IN  SelectSeq(iter(psplicings(self)), keep)

RECURSIVE closure(_)
RECURSIVE preclosure(_)
preclosure(self) ==
    LET P == narrow_psplicings(self)
    IN  sum([i \in 1..Len(P) |-> floordiv(closure(P[i][1]), closure(P[i][2]))],
            floordiv(left(self), right(self)))

\* the terms Parallel(g1, g2) whose preclosures make up matrix[s1, s2]
matrix_terms(s1, s2) ==
    LET X == cross(iter(ssplicings(left(s1))), iter(ssplicings(right(s1))))
        hits(x) == eq(Parallel(x[1][2], x[2][2]), s2)
        H == SelectSeq(X, hits)
    IN  tuple([k \in 1..Len(H) |-> Parallel(H[k][1][1], H[k][2][1])])

\* matrix[s1, s2] of Parallel.linear_system
matrix_entry(s1, s2) ==
    LET Q == matrix_terms(s1, s2)
    IN  sum([k \in 1..Len(Q) |-> preclosure(Q[k])], Zero)

\* symbols of Parallel.linear_system
symbols_of(self) ==
    LET X == cross(iter(remainders(left(self), {})),
                   iter(remainders(right(self), {})))
    IN  term_set([k \in 1..Len(X) |-> Parallel(X[k][1], X[k][2])])

linear_system(self) ==
    LET symbols == symbols_of(self)
    IN  [symbols |-> symbols,
         matrix |-> dict([k \in {<<s1.str, s2.str>> : s1 \in symbols, s2 \in symbols} |->
                        LET s1 == CHOOSE s \in symbols : s.str = k[1]
                            s2 == CHOOSE s \in symbols : s.str = k[2]
                        IN  matrix_entry(s1, s2)]),
         vector |-> dict([k \in {s.str : s \in symbols} |->
                        LET s == CHOOSE x \in symbols : x.str = k
                        IN  floordiv(left(s), right(s))])]

\* symbols - {elim}
reuse(self, elim) == {v \in self.symbols : ~eq(v, elim)}

\* the keys solve reads from matrix and vector when it eliminates elim
keys_read(self, elim) ==
    LET e == elim.str
        rest == {v.str : v \in reuse(self, elim)}
    IN  [matrix |-> {<<e, e>>} \cup {<<v, e>> : v \in rest}
                              \cup {<<e, v>> : v \in rest}
                              \cup (rest \X rest),
         vector |-> {e} \cup rest]

\* whether a lookup of solve raises KeyError
raises_KeyError(self, elim) ==
    LET read == keys_read(self, elim)
    IN  \/ ~(read.matrix \subseteq DOMAIN self.matrix)
        \/ ~(read.vector \subseteq DOMAIN self.vector)

\* Base: the fixpoint axiom
base_solution(self, elim) ==
    (elim.str :>
        pow(star(self.matrix[<<elim.str, elim.str>>]), self.vector[elim.str]))

\* the subsystem with subvector left as the vector of the system
subsystem_plain_vector(self, elim) ==
    LET e == elim.str
        rest == {v.str : v \in reuse(self, elim)}
        m == self.matrix
    IN  [symbols |-> reuse(self, elim),
         matrix |-> dict([k \in rest \X rest |->
                        add(pow(m[<<k[1], e>>],
                                pow(star(m[<<e, e>>]), m[<<e, k[2]>>])),
                            m[k])]),
         vector |-> dict([v \in rest |-> self.vector[v]])]

\* Induction: the system with elim eliminated
subsystem(self, elim) ==
    LET e == elim.str
        rest == {v.str : v \in reuse(self, elim)}
        m == self.matrix
    IN  [symbols |-> reuse(self, elim),
         matrix |-> dict([k \in rest \X rest |->
                        add(pow(m[<<k[1], e>>],
                                pow(star(m[<<e, e>>]), m[<<e, k[2]>>])),
                            m[k])]),
         vector |-> dict([v \in rest |->
                        add(self.vector[v],
                            pow(m[<<v, e>>], self.vector[e]))])]

\* back substitution into a new dictionary that holds elim only
back_substitute_fresh(self, elim, sub) ==
    LET e == elim.str
        V == iter(reuse(self, elim))
    IN  (e :> pow(star(self.matrix[<<e, e>>]),
                  sum([i \in 1..Len(V) |->
                          pow(self.matrix[<<e, V[i].str>>], sub[V[i].str])],
                      self.vector[e])))

\* solution[elim] = ..., given the solution of the subsystem
back_substitute(self, elim, sub) ==
    LET e == elim.str
        V == iter(reuse(self, elim))
    IN  (e :> pow(star(self.matrix[<<e, e>>]),
                  sum([i \in 1..Len(V) |->
                          pow(self.matrix[<<e, V[i].str>>], sub[V[i].str])],
                      self.vector[e])))
        @@ sub

RECURSIVE solve(_)
solve(self) ==
    LET elim == iter(self.symbols)[1]
    IN  IF reuse(self, elim) = {} THEN base_solution(self, elim)
        ELSE back_substitute(self, elim, solve(subsystem(self, elim)))

\* closure with Sequential.closure composing the operands the wrong way round
closure_swapped(self) ==
    CASE self.tag = "Choice" -> add(closure(left(self)), closure(right(self)))
      [] self.tag = "Sequential" -> pow(closure(right(self)), closure(left(self)))
      [] self.tag = "Star" -> star(closure(beneath(self)))
      [] self.tag = "Parallel" -> solve(linear_system(self))[self.str]
      [] OTHER -> self

closure(self) ==
    CASE self.tag = "Choice" -> add(closure(left(self)), closure(right(self)))
      [] self.tag = "Sequential" -> pow(closure(left(self)), closure(right(self)))
      [] self.tag = "Star" -> star(closure(beneath(self)))
      [] self.tag = "Parallel" -> solve(linear_system(self))[self.str]
      [] OTHER -> self

(***************************************************************************)
(* Building terms with the smart constructors                              *)
(***************************************************************************)
Operands ==
    {Zero, One} \cup {Primitive(c) : c \in Letters}
                \cup {star(Primitive(c)) : c \in Letters}

\* the set object that is the default value of the parameter `seen`
DefaultSeen == 1

NoSystem == [symbols |-> {}, matrix |-> <<>>, vector |-> <<>>]

InitIdle ==
    /\ heap = (DefaultSeen :> {})
    /\ stack = <<>>
    /\ result = {}
    /\ ncalls = 0
    /\ steps = 0
    /\ system = NoSystem
    /\ frames = <<>>
    /\ solution = <<>>
    /\ closed = Zero
    /\ chain = <<>>

InitTerms ==
    /\ ord \in {"fwd", "rev"}
    /\ pc = "build"
    /\ t \in Operands
    /\ nops = 0
    /\ InitIdle

Build(u) ==
    /\ pc = "build"
    /\ nops < MaxOps
    /\ t' = u
    /\ nops' = nops + 1
    /\ UNCHANGED <<ord, pc>>
    /\ UNCHANGED remvars
    /\ UNCHANGED solvevars
    /\ UNCHANGED chain

AddRight == \E x \in Operands : Build(add(t, x))

AddLeft == \E x \in Operands : Build(add(x, t))

PowRight == \E x \in Operands : Build(pow(t, x))

PowLeft == \E x \in Operands : Build(pow(x, t))

FloordivRight == \E x \in Operands : Build(floordiv(t, x))

FloordivLeft == \E x \in Operands : Build(floordiv(x, t))

StarTerm == Build(star(t))

NextTerms ==
    \/ AddRight
    \/ AddLeft
    \/ PowRight
    \/ PowLeft
    \/ FloordivRight
    \/ FloordivLeft
    \/ StarTerm

SpecTerms == InitTerms /\ [][NextTerms]_vars

(***************************************************************************)
(* Term.remainders, one action per step of its loop.  A frame holds the    *)
(* locals of one call: `seen` and `remainders` are references into `heap`, *)
(* `todo` is the frame's own set.  A set object no frame refers to any     *)
(* more is dropped from the heap; the default of `seen` is never dropped.  *)
(***************************************************************************)
RemGenerators == {Primitive(c) : c \in Letters}

RECURSIVE BuiltTerms(_)
BuiltTerms(n) ==
    IF n = 0 THEN RemGenerators
    ELSE LET S == BuiltTerms(n - 1)
         IN  S \cup {add(x, y) : x \in S, y \in RemGenerators}
               \cup {pow(x, y) : x \in S, y \in RemGenerators}
               \cup {pow(y, x) : x \in S, y \in RemGenerators}
               \cup {floordiv(x, y) : x \in S, y \in RemGenerators}
               \cup {star(x) : x \in S}

RemInputs == BuiltTerms(MaxRemOps)

fresh(h) == CHOOSE r \in 1..(Cardinality(DOMAIN h) + 1) : r \notin DOMAIN h

\* remainders = seen; remainders.add(self): no new set object is made
new_remainders_aliasing(h, self, seen) ==
    [heap |-> [h EXCEPT ![seen] = term_union(@, {self})], ref |-> seen]

\* remainders = {self}: what the caller has seen is forgotten
new_remainders_without_seen(h, self, seen) ==
    LET r == fresh(h)
    IN  [heap |-> h @@ (r :> {self}), ref |-> r]

\* remainders = {self} | seen
new_remainders(h, self, seen) ==
    LET r == fresh(h)
    IN  [heap |-> h @@ (r :> term_union({self}, h[seen])), ref |-> r]

\* the locals of self.remainders(seen) when the loop is reached
enter(h, self, seen) ==
    LET made == new_remainders(h, self, seen)
    IN  [heap |-> made.heap,
         frame |-> [self |-> self, seen |-> seen, todo |-> ssplicings(self),
                    remainders |-> made.ref]]

live(h, calls) ==
    LET refs == {DefaultSeen} \cup {calls[i].remainders : i \in 1..Len(calls)}
                              \cup {calls[i].seen : i \in 1..Len(calls)}
    IN  dict([r \in (DOMAIN h) \cap refs |-> h[r]])

top == stack[Len(stack)]

InitRem ==
    /\ ord \in {"fwd", "rev"}
    /\ pc = "idle"
    /\ t \in RemInputs
    /\ nops = 0
    /\ InitIdle

\* a top-level call u.remainders(), `seen` taking its default
Call ==
    /\ pc \in {"idle", "done"}
    /\ ncalls < MaxCalls
    /\ \E u \in RemInputs :
          LET e == enter(heap, u, DefaultSeen)
          IN  /\ t' = u
              /\ heap' = e.heap
              /\ stack' = <<e.frame>>
    /\ pc' = "remainders"
    /\ result' = {}
    /\ ncalls' = ncalls + 1
    /\ steps' = 0
    /\ UNCHANGED <<ord, nops>>
    /\ UNCHANGED solvevars
    /\ UNCHANGED chain

\* todo.pop() gives a pair whose right side is already in remainders
Skip ==
    /\ pc = "remainders"
    /\ \E p \in top.todo :
          /\ member(p[2], heap[top.remainders])
          /\ stack' = [stack EXCEPT ![Len(stack)].todo = @ \ {p}]
    /\ steps' = steps + 1
    /\ UNCHANGED <<ord, pc, t, nops, heap, result, ncalls>>
    /\ UNCHANGED solvevars
    /\ UNCHANGED chain

\* todo.pop() gives a pair whose right side is new: expand.remainders(remainders)
Recurse ==
    /\ pc = "remainders"
    /\ \E p \in top.todo :
          /\ ~member(p[2], heap[top.remainders])
          /\ LET e == enter(heap, p[2], top.remainders)
             IN  /\ heap' = e.heap
                 /\ stack' = Append([stack EXCEPT ![Len(stack)].todo = @ \ {p}],
                                    e.frame)
    /\ steps' = steps + 1
    /\ UNCHANGED <<ord, pc, t, nops, result, ncalls>>
    /\ UNCHANGED solvevars
    /\ UNCHANGED chain

\* a nested call returns: remainders |= <the returned set>
Return ==
    /\ pc = "remainders"
    /\ Len(stack) > 1
    /\ top.todo = {}
    /\ LET caller == stack[Len(stack) - 1]
           rest == SubSeq(stack, 1, Len(stack) - 1)
           merged == [heap EXCEPT ![caller.remainders] =
                          term_union(@, heap[top.remainders])]
       IN  /\ stack' = rest
           /\ heap' = live(merged, rest)
    /\ UNCHANGED <<ord, pc, t, nops, result, ncalls, steps>>
    /\ UNCHANGED solvevars
    /\ UNCHANGED chain

\* the top-level call returns
ReturnTop ==
    /\ pc = "remainders"
    /\ Len(stack) = 1
    /\ top.todo = {}
    /\ result' = heap[top.remainders]
    /\ stack' = <<>>
    /\ heap' = live(heap, <<>>)
    /\ pc' = "done"
    /\ UNCHANGED <<ord, t, nops, ncalls, steps>>
    /\ UNCHANGED solvevars
    /\ UNCHANGED chain

NextRem ==
    \/ Call
    \/ Skip
    \/ Recurse
    \/ Return
    \/ ReturnTop

SpecRem == InitRem /\ [][NextRem]_vars

(***************************************************************************)
(* Parallel.closure, one action per step of LinearSystem.solve.  The       *)
(* pivot `next(iter(self.symbols))` may be any symbol of the system.       *)
(* pc = "KeyError" stands for a lookup that raised.                        *)
(***************************************************************************)
symbol_count(x) ==
    Cardinality(remainders(left(x), {})) * Cardinality(remainders(right(x), {}))

SolveInputs ==
    {x \in {floordiv(l, r) : l \in BuiltTerms(MaxSolveOps),
                             r \in BuiltTerms(MaxSolveOps)} :
        x.tag = "Parallel"}

InitSolve ==
    /\ ord \in {"fwd", "rev"}
    /\ pc = "idle"
    /\ t \in SolveInputs
    /\ nops = 0
    /\ InitIdle

\* t.closure() is called: self.linear_system().solve()
StartClosure ==
    /\ pc = "idle"
    /\ symbol_count(t) <= MaxSymbols
    /\ system' = linear_system(t)
    /\ pc' = "solve"
    /\ UNCHANGED <<ord, t, nops, frames, solution, closed>>
    /\ UNCHANGED remvars
    /\ UNCHANGED chain

\* Induction: eliminate one variable and recurse
Eliminate ==
    /\ pc = "solve"
    /\ \E elim \in system.symbols :
          /\ reuse(system, elim) # {}
          /\ IF raises_KeyError(system, elim)
             THEN /\ pc' = "KeyError"
                  /\ UNCHANGED <<system, frames>>
             ELSE /\ pc' = "solve"
                  /\ frames' = Append(frames, [system |-> system, elim |-> elim])
                  /\ system' = subsystem(system, elim)
    /\ UNCHANGED <<ord, t, nops, solution, closed>>
    /\ UNCHANGED remvars
    /\ UNCHANGED chain

\* Base: one symbol is left
Base ==
    /\ pc = "solve"
    /\ \E elim \in system.symbols :
          /\ reuse(system, elim) = {}
          /\ IF raises_KeyError(system, elim)
             THEN /\ pc' = "KeyError"
                  /\ UNCHANGED solution
             ELSE /\ pc' = "return"
                  /\ solution' = base_solution(system, elim)
    /\ UNCHANGED <<ord, t, nops, system, frames, closed>>
    /\ UNCHANGED remvars
    /\ UNCHANGED chain

\* the back substitution with back_substitute_fresh
BackSubstitute_fresh ==
    /\ pc = "return"
    /\ frames # <<>>
    /\ LET f == frames[Len(frames)]
       IN  /\ frames' = SubSeq(frames, 1, Len(frames) - 1)
           /\ system' = f.system
           /\ IF {v.str : v \in reuse(f.system, f.elim)} \subseteq DOMAIN solution
              THEN /\ pc' = "return"
                   /\ solution' = back_substitute_fresh(f.system, f.elim, solution)
              ELSE /\ pc' = "KeyError"
                   /\ UNCHANGED solution
    /\ UNCHANGED <<ord, t, nops, closed>>
    /\ UNCHANGED remvars
    /\ UNCHANGED chain

\* subsystem.solve() returned to the solve() that made it
BackSubstitute ==
    /\ pc = "return"
    /\ frames # <<>>
    /\ LET f == frames[Len(frames)]
       IN  /\ frames' = SubSeq(frames, 1, Len(frames) - 1)
           /\ system' = f.system
           /\ IF {v.str : v \in reuse(f.system, f.elim)} \subseteq DOMAIN solution
              THEN /\ pc' = "return"
                   /\ solution' = back_substitute(f.system, f.elim, solution)
              ELSE /\ pc' = "KeyError"
                   /\ UNCHANGED solution
    /\ UNCHANGED <<ord, t, nops, closed>>
    /\ UNCHANGED remvars
    /\ UNCHANGED chain

\* the outermost solve() returned: return solution[self]
Lookup ==
    /\ pc = "return"
    /\ frames = <<>>
    /\ IF t.str \in DOMAIN solution
       THEN /\ pc' = "done"
            /\ closed' = solution[t.str]
       ELSE /\ pc' = "KeyError"
            /\ UNCHANGED closed
    /\ UNCHANGED <<ord, t, nops, system, frames, solution>>
    /\ UNCHANGED remvars
    /\ UNCHANGED chain

NextSolve ==
    \/ StartClosure
    \/ Eliminate
    \/ Base
    \/ BackSubstitute
    \/ Lookup

SpecSolve == InitSolve /\ [][NextSolve]_vars

(***************************************************************************)
(* The closure() calls that are active at one moment of the evaluation of  *)
(* t.closure(): `chain` is a path in its tree of calls.  A call on a       *)
(* Choice, Sequential or Star term calls closure on its operands; a call   *)
(* on a Parallel term builds the linear system, whose matrix entries are   *)
(* sums of preclosures, and preclosure calls closure on both sides of each *)
(* parallel splicing that passes its width condition.                      *)
(***************************************************************************)
CallInputs == BuiltTerms(MaxCallOps)

\* the terms Parallel(g1, g2) on which self.linear_system() calls preclosure
preclosure_receivers(self) ==
    LET symbols == symbols_of(self)
    IN  UNION {{matrix_terms(s1, s2)[k] : k \in 1..Len(matrix_terms(s1, s2))} :
                  s1 \in symbols, s2 \in symbols}

\* the terms on which self.preclosure() calls closure
closure_receivers(self) ==
    LET P == narrow_psplicings(self)
    IN  {P[i][1] : i \in 1..Len(P)} \cup {P[i][2] : i \in 1..Len(P)}

current == chain[Len(chain)]

InitCalls ==
    /\ ord \in {"fwd", "rev"}
    /\ pc = "idle"
    /\ t \in CallInputs
    /\ nops = 0
    /\ InitIdle

Enter(u) ==
    /\ pc = "closure"
    /\ chain' = Append(chain, u)
    /\ UNCHANGED <<ord, pc, t, nops>>
    /\ UNCHANGED remvars
    /\ UNCHANGED solvevars

\* t.closure() is called
CallClosure ==
    /\ pc = "idle"
    /\ chain' = <<t>>
    /\ pc' = "closure"
    /\ UNCHANGED <<ord, t, nops>>
    /\ UNCHANGED remvars
    /\ UNCHANGED solvevars

\* self.left.closure() of Choice.closure and Sequential.closure
ClosureLeft ==
    /\ pc = "closure"
    /\ current.tag \in {"Choice", "Sequential"}
    /\ Enter(left(current))

\* self.right.closure() of Choice.closure and Sequential.closure
ClosureRight ==
    /\ pc = "closure"
    /\ current.tag \in {"Choice", "Sequential"}
    /\ Enter(right(current))

\* self.beneath.closure() of Star.closure
ClosureBeneath ==
    /\ pc = "closure"
    /\ current.tag = "Star"
    /\ Enter(beneath(current))

\* g.closure() or h.closure() of a preclosure that Parallel.closure reaches
ClosureNested ==
    /\ pc = "closure"
    /\ current.tag = "Parallel"
    /\ \E Q \in preclosure_receivers(current) :
          \E u \in closure_receivers(Q) : Enter(u)

\* the innermost call returns
ReturnClosure ==
    /\ pc = "closure"
    /\ chain' = SubSeq(chain, 1, Len(chain) - 1)
    /\ pc' = IF Len(chain) = 1 THEN "done" ELSE "closure"
    /\ UNCHANGED <<ord, t, nops>>
    /\ UNCHANGED remvars
    /\ UNCHANGED solvevars

NextCalls ==
    \/ CallClosure
    \/ ClosureLeft
    \/ ClosureRight
    \/ ClosureBeneath
    \/ ClosureNested
    \/ ReturnClosure

SpecCalls == InitCalls /\ [][NextCalls]_vars

(***************************************************************************)
(* Properties of the term algebra, checked under SpecTerms                 *)
(***************************************************************************)
pkeys(S) == {pkey(p) : p \in S}

RECURSIVE WithinMaxSymbols(_)
\* every parallel composition in x has a linear system of at most MaxSymbols
\* symbols
WithinMaxSymbols(x) ==
    CASE x.tag \in {"Choice", "Sequential"} ->
            WithinMaxSymbols(left(x)) /\ WithinMaxSymbols(right(x))
      [] x.tag = "Star" -> WithinMaxSymbols(beneath(x))
      [] x.tag = "Parallel" ->
            /\ WithinMaxSymbols(left(x))
            /\ WithinMaxSymbols(right(x))
            /\ symbol_count(x) <= MaxSymbols
      [] OTHER -> TRUE

\* C3 as stated: closure(closure(t)) equals closure(t) for every term t.
C3_ClosureIdempotent ==
    (pc = "build" /\ WithinMaxSymbols(t)) =>
        eq(closure(closure(t)), closure(t))

RECURSIVE PrimitiveParallels(_)
\* every parallel composition in x is one of two primitives
PrimitiveParallels(x) ==
    CASE x.tag \in {"Choice", "Sequential"} ->
            PrimitiveParallels(left(x)) /\ PrimitiveParallels(right(x))
      [] x.tag = "Star" -> PrimitiveParallels(beneath(x))
      [] x.tag = "Parallel" ->
            left(x).tag = "Primitive" /\ right(x).tag = "Primitive"
      [] OTHER -> TRUE

\* C3 (amended): closure(closure(t)) equals closure(t) for every term t in
\* which every parallel composition is one of two primitives (in particular
\* for every t without parallel composition), when both calls iterate over
\* sets in the same order.
C3_ClosureIdempotentOnPrimitiveParallels ==
    (pc = "build" /\ PrimitiveParallels(t)) =>
        eq(closure(closure(t)), closure(t))

C3_Witness ==
    /\ pc = "build"
    /\ t.tag = "Star"
    /\ beneath(t).tag = "Parallel"
    /\ PrimitiveParallels(t)
    /\ ~eq(closure(t), t)
    /\ eq(closure(closure(t)), closure(t))

\* C4 as stated: nullable(a) holds if and only if a + One prints as a.
C4_NullableIffAbsorbsOne ==
    pc = "build" => (nullable(t) <=> eq(add(t, One), t))

\* C4 (amended): whenever a + One prints as a, a is nullable.  (The converse
\* fails for nullable Sequential and Parallel terms.)
C4_AbsorbsOneImpliesNullable ==
    pc = "build" => (eq(add(t, One), t) => nullable(t))

C4_Witness ==
    /\ pc = "build"
    /\ t.tag = "Choice"
    /\ eq(add(t, One), t)
    /\ nullable(t)

\* C5 as stated: for every (g, h) in t.ssplicings(), g ** h is in t.
C5_SplicingsContained ==
    pc = "build" => \A p \in ssplicings(t) : contains(t, pow(p[1], p[2]))

RECURSIVE ProductOfPrimitives(_)
ProductOfPrimitives(x) ==
    \/ x.tag = "Primitive"
    \/ /\ x.tag = "Sequential"
       /\ ProductOfPrimitives(left(x))
       /\ ProductOfPrimitives(right(x))

RECURSIVE SumOfProducts(_)
SumOfProducts(x) ==
    \/ x.tag \in {"Zero", "One"}
    \/ ProductOfPrimitives(x)
    \/ /\ x.tag = "Choice"
       /\ SumOfProducts(left(x))
       /\ SumOfProducts(right(x))

\* C5 (amended): for every t that is Zero, One, a product of primitives, or a
\* sum of such terms, and every (g, h) in t.ssplicings(), g ** h is in t.
C5_SplicingsContainedInSums ==
    (pc = "build" /\ SumOfProducts(t)) =>
        \A p \in ssplicings(t) : contains(t, pow(p[1], p[2]))

C5_Witness ==
    /\ pc = "build"
    /\ t.tag = "Choice"
    /\ right(t).tag = "Sequential"
    /\ SumOfProducts(t)
    /\ \E p \in ssplicings(t) :
          /\ p[1].tag = "Primitive"
          /\ p[2].tag = "Primitive"
          /\ contains(t, pow(p[1], p[2]))

\* C7: width is total and returns 0 on every trivial term, Zero included.
C7_WidthTotal ==
    pc = "build" =>
        /\ width(t) # TypeError
        /\ (t.tag = "Zero" => width(t) = 0)

\* (x ** y) ** z rebuilt as x ** (y ** z)
Reassociate(x) ==
    IF x.tag = "Sequential" /\ left(x).tag = "Sequential"
    THEN pow(left(left(x)), pow(right(left(x)), right(x)))
    ELSE x

\* C10: two equal terms have the same parallel splicings (as sets of pairs
\* under term equality).
C10_EqualTermsSamePsplicings ==
    (pc = "build" /\ eq(Reassociate(t), t)) =>
        pkeys(psplicings(Reassociate(t))) = pkeys(psplicings(t))

(***************************************************************************)
(* Properties of remainders, checked under SpecRem                         *)
(***************************************************************************)
strs(S) == {x.str : x \in S}

RECURSIVE SplicingClosure(_)
\* the least set that holds S and, with every u, the right side of every
\* sequential splicing of u (one term per printed form)
SplicingClosure(S) ==
    LET N == term_union(S,
                 term_set(SetToSeq({p[2] : p \in UNION {ssplicings(u) : u \in S}})))
    IN  IF N = S THEN S ELSE SplicingClosure(N)

RECURSIVE Sum(_, _)
Sum(S, f) ==
    IF S = {} THEN 0
    ELSE LET x == CHOOSE y \in S : TRUE IN f[x] + Sum(S \ {x}, f)

\* C6: the top-level call t.remainders() ends: its loops pop at most one pair
\* per sequential splicing of each remainder of t.  The set it returns
\* contains t and, with every u in it, the right side of every sequential
\* splicing of u.
C6_RemaindersClosedAndTerminates ==
    /\ pc \in {"remainders", "done"} =>
          LET R == SplicingClosure({t})
          IN  steps <= Sum(R, [u \in R |-> Cardinality(ssplicings(u))])
    /\ pc = "done" =>
          /\ member(t, result)
          /\ \A u \in result : \A p \in ssplicings(u) : member(p[2], result)

C6_Witness ==
    /\ pc = "done"
    /\ t.tag = "Star"
    /\ Cardinality(result) >= 3
    /\ \E u \in result : ~eq(u, t) /\ u.tag = "Sequential"

\* C9: the default set of `seen` is empty at every moment, and whatever calls
\* came before, a top-level t.remainders() returns exactly the remainders of t.
C9_DefaultSeenStaysEmpty ==
    /\ heap[DefaultSeen] = {}
    /\ pc = "done" => strs(result) = strs(SplicingClosure({t}))

C9_Witness ==
    /\ pc = "done"
    /\ ncalls = 2
    /\ t.tag = "Primitive"
    /\ heap[DefaultSeen] = {}
    /\ Cardinality(result) = 2

(***************************************************************************)
(* Properties of Parallel.closure, checked under SpecSolve                 *)
(***************************************************************************)
\* C2: for distinct primitives x and y, whatever pivots solve picks, the term
\* that (x | y).closure() returns contains x ** y and y ** x, and its width
\* is 2.
C2_ClosureOfPrimitivesInterleaves ==
    (/\ pc = "done"
     /\ left(t).tag = "Primitive"
     /\ right(t).tag = "Primitive"
     /\ ~eq(left(t), right(t))) =>
        /\ contains(closed, pow(left(t), right(t)))
        /\ contains(closed, pow(right(t), left(t)))
        /\ width(closed) = 2

C2_Witness ==
    /\ pc = "done"
    /\ eq(t, Parallel(Primitive("a"), Primitive("b")))
    /\ closed.tag = "Choice"
    /\ contains(closed, Sequential(Primitive("b"), Primitive("a")))
    /\ width(closed) = 2

\* C8: whatever pivots solve picks on the system of a Parallel term t, no
\* lookup raises KeyError: every system solve is called on has a matrix entry
\* for every pair of its symbols and a vector entry for every symbol; each
\* level of the recursion eliminates exactly one symbol of its system; the
\* solution a solve returns is defined on exactly the symbols of its system;
\* and the symbols of the outermost system include one equal to t, so that
\* solution[t] is found.
C8_SolveFindsEveryKey ==
    /\ pc # "KeyError"
    /\ pc \in {"solve", "return"} =>
          /\ DOMAIN system.matrix = strs(system.symbols) \X strs(system.symbols)
          /\ DOMAIN system.vector = strs(system.symbols)
          /\ \A i \in 1..Len(frames) :
                LET outer == frames[i].system
                    inner == IF i < Len(frames) THEN frames[i + 1].system
                             ELSE system
                IN  /\ member(frames[i].elim, outer.symbols)
                    /\ strs(inner.symbols) =
                          strs(outer.symbols) \ {frames[i].elim.str}
                    /\ Cardinality(inner.symbols) =
                          Cardinality(outer.symbols) - 1
    /\ pc = "return" => DOMAIN solution = strs(system.symbols)
    /\ pc = "done" =>
          /\ DOMAIN solution = strs(symbols_of(t))
          /\ member(t, symbols_of(t))
          /\ closed = solution[t.str]

C8_Witness ==
    /\ pc = "done"
    /\ left(t).tag = "Sequential"
    /\ Cardinality(system.symbols) = 6
    /\ Cardinality(DOMAIN solution) = 6
    /\ t.str \in DOMAIN solution

(***************************************************************************)
(* Properties of the chain of closure calls, checked under SpecCalls       *)
(***************************************************************************)
RECURSIVE size(_)
\* the number of constructors of x
size(x) ==
    CASE x.tag \in {"Choice", "Sequential", "Parallel"} ->
            1 + size(left(x)) + size(right(x))
      [] x.tag = "Star" -> 1 + size(beneath(x))
      [] OTHER -> 1

\* C1: while t.closure() runs, every closure call that is active below a call
\* on a Parallel term P is on a term of width strictly smaller than width(P);
\* and each call is on a term that is smaller than its caller's in the order
\* (width, size), so that no chain of calls is infinite and closure ends.
C1_NestedClosureOnSmallerWidth ==
    pc = "closure" =>
        /\ \A i \in 1..Len(chain) : \A j \in 1..Len(chain) :
              (i < j /\ chain[i].tag = "Parallel") =>
                  width(chain[j]) < width(chain[i])
        /\ \A i \in 1..(Len(chain) - 1) :
              \/ width(chain[i + 1]) < width(chain[i])
              \/ /\ width(chain[i + 1]) = width(chain[i])
                 /\ size(chain[i + 1]) < size(chain[i])

C1_Witness ==
    /\ pc = "closure"
    /\ Len(chain) >= 3
    /\ chain[1].tag = "Parallel"
    /\ width(chain[1]) = 3
    /\ chain[2].tag = "Parallel"
    /\ width(chain[2]) = 2
    /\ chain[3].tag = "Primitive"

====
